---- MODULE Spec2Model ----
(***************************************************************************)
(* Model of streamlit.py: the media-intelligence dashboard.                *)
(*                                                                         *)
(* A script run is one action.  The state is what survives between runs    *)
(* (st.session_state.df, the st.cache_data store, the widgets' values) and *)
(* what the last run computed (df, filtered_df, the five chart series).    *)
(*                                                                         *)
(* Cells are triples <<tag, number, text>> so that cells of every pandas   *)
(* dtype can be compared with each other:                                  *)
(*   <<"str",0,s>>  text cell       <<"nan",0,"">>  missing cell (NaN)     *)
(*   <<"datetime",h,"">> Timestamp, h = hours since the model's epoch      *)
(*   <<"NaT",0,"">> not-a-time      <<"float",t,"">> float, t in tenths    *)
(*   <<"inf",0,"">> float infinity  <<"int",n,"">>  int64                  *)
(***************************************************************************)
EXTENDS Integers, Sequences, FiniteSets, TLC

VARIABLES
    session_df,          \* st.session_state.df
    cache,               \* the st.cache_data store of clean_data
    uploaded_file,       \* value of the st.file_uploader widget
    df,                  \* the script's variable df at the end of the run
    view,                \* where the last run ended
    platform, sentiment, media_type, location, start_date, end_date,
    filtered_df,
    sentiment_counts, platform_engagements, engagement_by_date,
    media_type_counts, location_counts

selectors == <<platform, sentiment, media_type, location, start_date, end_date>>
charts == <<sentiment_counts, platform_engagements, engagement_by_date,
            media_type_counts, location_counts>>
vars == <<session_df, cache, uploaded_file, df, view, selectors, filtered_df, charts>>

----------------------------------------------------------------------------
(* Bounds *)

MaxRows == 3
MaxDashRows == 2
MaxLocExtra == 3

----------------------------------------------------------------------------
(* Cells and tables *)

NaN == <<"nan", 0, "">>
NaT == <<"NaT", 0, "">>
Inf == <<"inf", 0, "">>
Str(s) == <<"str", 0, s>>
Datetime(h) == <<"datetime", h, "">>
Float64(t) == <<"float", t, "">>
Int64(n) == <<"int", n, "">>

IsNull(c) == c[1] \in {"nan", "NaT"}

RequiredColumns == {"Date", "Engagements", "Platform", "Sentiment", "Media Type", "Location"}

None == [isNone |-> TRUE, columns |-> {}, rows |-> <<>>]
DataFrame(cols, rows) == [isNone |-> FALSE, columns |-> cols, rows |-> rows]

NoFile == [present |-> FALSE, readable |-> FALSE, columns |-> {}, rows |-> <<>>]
CsvFile(cols, rows) == [present |-> TRUE, readable |-> TRUE, columns |-> cols, rows |-> rows]
CorruptFile == [present |-> TRUE, readable |-> FALSE, columns |-> {}, rows |-> <<>>]

Row(d, e, p, s, m, l) ==
    ("Date" :> d) @@ ("Engagements" :> e) @@ ("Platform" :> p) @@
    ("Sentiment" :> s) @@ ("Media Type" :> m) @@ ("Location" :> l)

----------------------------------------------------------------------------
(* pandas conversions used by clean_data *)

\* pd.to_datetime(cell, errors='coerce') on one cell of a column whose dates are
\* all written year-month-day hour:minute
ToDatetime(c) ==
    CASE c = Str("2024-01-01 00:00")       -> Datetime(24)
      [] c = Str("2024-01-01 18:00") -> Datetime(42)
      [] c = Str("2024-01-02 00:00")       -> Datetime(48)
      [] c = Str("2024-01-02 13:00") -> Datetime(61)
      [] c = Str("2024-01-03 00:00")       -> Datetime(72)
      [] c[1] = "datetime"           -> c
      [] OTHER                       -> NaT

\* pd.to_numeric(cell, errors='coerce') on one cell
ToNumeric(c) ==
    CASE c = Str("10")   -> Float64(100)
      [] c = Str("0")    -> Float64(0)
      [] c = Str("3")    -> Float64(30)
      [] c = Str("7")    -> Float64(70)
      [] c = Str("-5")   -> Float64(-50)
      [] c = Str("3.7")  -> Float64(37)
      [] c = Str("-2.5") -> Float64(-25)
      [] c = Str("inf")  -> Inf
      [] c[1] \in {"float", "int", "inf"} -> c
      [] OTHER           -> NaN

\* Series.fillna(0) on one numeric cell
FillNaZero(c) == IF IsNull(c) THEN Float64(0) ELSE c

\* whether Series.astype(int) raises on this cell
AstypeIntRaises(c) == c[1] \in {"nan", "inf", "NaT", "str"}

\* Series.astype(int) on one finite cell: truncation toward zero
AstypeInt(c) ==
    CASE c[1] = "int"   -> c
      [] c[1] = "float" -> IF c[2] >= 0 THEN Int64(c[2] \div 10) ELSE Int64(-((-c[2]) \div 10))
      [] OTHER          -> c

\* Series.astype(str) on one cell: a missing cell becomes the text "nan"
AstypeStr(c) ==
    CASE c[1] = "str" -> c
      [] c[1] = "nan" -> Str("nan")
      [] c[1] = "NaT" -> Str("NaT")
      [] OTHER        -> c

\* Series.fillna('Unknown') on one cell
FillNaUnknown(c) == IF IsNull(c) THEN Str("Unknown") ELSE c

----------------------------------------------------------------------------
(* clean_data *)

\* df['Date'] = pd.to_datetime(df['Date'], errors='coerce')
SetDate(rows) == [i \in DOMAIN rows |-> [rows[i] EXCEPT !["Date"] = ToDatetime(@)]]

HasDate(r) == ~IsNull(r["Date"])

NoNulls(r) == \A col \in DOMAIN r : ~IsNull(r[col])

\* Faulty variant: df.dropna(inplace=True), without the subset
DropNaAny(rows) == SelectSeq(rows, NoNulls)

\* df.dropna(subset=['Date'], inplace=True)
DropNaDate(rows) == SelectSeq(rows, HasDate)

\* df['Engagements'] = pd.to_numeric(df['Engagements'], errors='coerce').fillna(0)
SetEngagements(rows) ==
    [i \in DOMAIN rows |-> [rows[i] EXCEPT !["Engagements"] = FillNaZero(ToNumeric(@))]]

\* df['Engagements'] = df['Engagements'].astype(int)
EngagementsToInt(rows) ==
    [i \in DOMAIN rows |-> [rows[i] EXCEPT !["Engagements"] = AstypeInt(@)]]

\* df[col] = df[col].astype(str).fillna('Unknown')
SetCategorical(rows, col) ==
    [i \in DOMAIN rows |-> [rows[i] EXCEPT ![col] = FillNaUnknown(AstypeStr(@))]]

Raised(cols, rows) == [raised |-> TRUE, df |-> DataFrame(cols, rows)]
Returned(cols, rows) == [raised |-> FALSE, df |-> DataFrame(cols, rows)]

\* The body of clean_data on the table d, which it changes in place and returns.
\* .df is the table as the call leaves it; .raised tells whether it raised
\* (KeyError for an absent column, or the integer cast of a non-finite value).
clean_data(d) ==
    LET cols == d.columns
        s47 == SetDate(d.rows)
        s50 == SetEngagements(s47)
        s53 == DropNaDate(s50)
        s56 == EngagementsToInt(s53)
        s57 == SetCategorical(s56, "Platform")
        s58 == SetCategorical(s57, "Sentiment")
        s59 == SetCategorical(s58, "Media Type")
        s60 == SetCategorical(s59, "Location")
    IN  CASE "Date" \notin cols        -> Raised(cols, d.rows)
          [] "Engagements" \notin cols -> Raised(cols, s47)
          [] \E i \in DOMAIN s53 : AstypeIntRaises(s53[i]["Engagements"])
                                       -> Raised(cols, s53)
          [] "Platform" \notin cols    -> Raised(cols, s56)
          [] "Sentiment" \notin cols   -> Raised(cols, s57)
          [] "Media Type" \notin cols  -> Raised(cols, s58)
          [] "Location" \notin cols    -> Raised(cols, s59)
          [] OTHER                     -> Returned(cols, s60)

CacheHit(store, d) == \E e \in store : e.key = d
CacheValue(store, d) == (CHOOSE e \in store : e.key = d).value

\* clean_data as decorated by @st.cache_data: a stored result is returned without
\* running the body (the argument is left alone); otherwise the body runs on the
\* caller's table and a result that did not raise is stored under the argument
\* as it was before the call.
cached_clean_data(store, d) ==
    IF CacheHit(store, d)
    THEN [raised |-> FALSE, value |-> CacheValue(store, d), df |-> d, cache |-> store]
    ELSE LET r == clean_data(d)
         IN  IF r.raised
             THEN [raised |-> TRUE, value |-> None, df |-> r.df, cache |-> store]
             ELSE [raised |-> FALSE, value |-> r.df, df |-> r.df,
                   cache |-> store \cup {[key |-> d, value |-> r.df]}]

\* pd.read_csv(uploaded_file): raises on a file that is no CSV
read_csv(f) == DataFrame(f.columns, f.rows)

----------------------------------------------------------------------------
(* Python and pandas helpers of the dashboard view *)

\* The texts of the model in the order of Python's sorted() (by code point)
SortedStrings ==
    <<"Bali", "Image", "Jakarta", "LA", "Medan", "NY", "Negative", "Positive",
      "Surabaya", "Unknown", "Video", "X", "Y", "nan">>

StrRank(s) == CHOOSE i \in DOMAIN SortedStrings : SortedStrings[i] = s

\* Timestamp.date() / Series.dt.date: the calendar day of a Timestamp
DateOf(c) == c[2] \div 24

RECURSIVE InsertByKey(_, _)
InsertByKey(x, sorted) ==
    IF sorted = <<>> THEN <<x>>
    ELSE IF x[1] < Head(sorted)[1]
         THEN <<x>> \o sorted
         ELSE <<Head(sorted)>> \o InsertByKey(x, Tail(sorted))

RECURSIVE SortByKey(_)
\* A stable ascending sort of <<key, item>> pairs: equal keys keep their order
SortByKey(seq) ==
    IF seq = <<>> THEN <<>>
    ELSE InsertByKey(seq[Len(seq)], SortByKey(SubSeq(seq, 1, Len(seq) - 1)))

Items(pairs) == [i \in DOMAIN pairs |-> pairs[i][2]]

\* sorted(list of str)
SortedTexts(seq) == Items(SortByKey([i \in DOMAIN seq |-> <<StrRank(seq[i]), seq[i]>>]))

\* ascending order of a list of days
SortedDays(seq) == Items(SortByKey([i \in DOMAIN seq |-> <<seq[i], seq[i]>>]))

\* Series.sort_values(ascending=False) of a series of <<label, value>>
SortValuesDesc(series) ==
    Items(SortByKey([i \in DOMAIN series |-> <<-series[i][2], series[i]>>]))

RECURSIVE Unique(_)
\* Series.unique(): the distinct values in order of first appearance
Unique(seq) ==
    IF seq = <<>> THEN <<>>
    ELSE LET u == Unique(SubSeq(seq, 1, Len(seq) - 1))
             x == seq[Len(seq)]
         IN  IF \E i \in DOMAIN u : u[i] = x THEN u ELSE Append(u, x)

TextColumn(rows, col) == [i \in DOMAIN rows |-> rows[i][col][3]]
DateColumn(rows) == [i \in DOMAIN rows |-> DateOf(rows[i]["Date"])]

Count(seq, x) == Cardinality({i \in DOMAIN seq : seq[i] = x})

RECURSIVE SumWhere(_, _, _)
\* the sum of Engagements over the rows whose key is k
SumWhere(rows, keys, k) ==
    IF rows = <<>> THEN 0
    ELSE LET n == Len(rows)
         IN  SumWhere(SubSeq(rows, 1, n - 1), SubSeq(keys, 1, n - 1), k)
             + (IF keys[n] = k THEN rows[n]["Engagements"][2] ELSE 0)

\* Series.value_counts(): by descending count, ties in order of first appearance
value_counts(values) ==
    LET u == Unique(values)
    IN  SortValuesDesc([i \in DOMAIN u |-> <<u[i], Count(values, u[i])>>])

\* Faulty variant: .count() instead of .sum()
groupby_count(rows, col) ==
    LET keys == TextColumn(rows, col)
        u == SortedTexts(Unique(keys))
    IN  [i \in DOMAIN u |-> <<u[i], Count(keys, u[i])>>]

\* df.groupby(col)['Engagements'].sum() for a text column: keys sorted ascending
groupby_sum(rows, col) ==
    LET keys == TextColumn(rows, col)
        u == SortedTexts(Unique(keys))
    IN  [i \in DOMAIN u |-> <<u[i], SumWhere(rows, keys, u[i])>>]

\* df.groupby(df['Date'].dt.date)['Engagements'].sum(): days ascending
groupby_date_sum(rows) ==
    LET keys == DateColumn(rows)
        u == SortedDays(Unique(keys))
    IN  [i \in DOMAIN u |-> <<u[i], SumWhere(rows, keys, u[i])>>]

TopN == 5

\* Faulty variant: Series.nsmallest(n)
nsmallest(series, n) ==
    LET s == Items(SortByKey([i \in DOMAIN series |-> <<series[i][2], series[i]>>]))
    IN  SubSeq(s, 1, IF Len(s) < n THEN Len(s) ELSE n)

\* Series.nlargest(n): the n largest values, descending, the first kept on ties
nlargest(series, n) ==
    LET s == SortValuesDesc(series)
    IN  SubSeq(s, 1, IF Len(s) < n THEN Len(s) ELSE n)

\* ['All'] + sorted(df[col].unique().tolist())
Options(rows, col) == <<"All">> \o SortedTexts(Unique(TextColumn(rows, col)))

\* df['Date'].min().date() and df['Date'].max().date(); NoDate on an empty table
NoDate == 0
Days(rows) == {DateOf(rows[i]["Date"]) : i \in DOMAIN rows}
min_date(rows) ==
    IF rows = <<>> THEN NoDate ELSE CHOOSE d \in Days(rows) : \A e \in Days(rows) : d <= e
max_date(rows) ==
    IF rows = <<>> THEN NoDate ELSE CHOOSE d \in Days(rows) : \A e \in Days(rows) : d >= e

----------------------------------------------------------------------------
(* The filtering logic *)

IsPlatform(r, sel) == r["Platform"] = Str(sel)
IsSentiment(r, sel) == r["Sentiment"] = Str(sel)
IsMediaType(r, sel) == r["Media Type"] = Str(sel)
IsLocation(r, sel) == r["Location"] = Str(sel)

\* Faulty variant: the Timestamps, not their days, compared with the chosen dates
FilterTimestamps(rows, sd, ed) ==
    LET Kept(r) == r["Date"][2] >= 24 * sd /\ r["Date"][2] <= 24 * ed
    IN  SelectSeq(rows, Kept)

\* Faulty variant: the two date conditions joined by | instead of &
FilterDatesEither(rows, sd, ed) ==
    LET Kept(r) == DateOf(r["Date"]) >= sd \/ DateOf(r["Date"]) <= ed
    IN  SelectSeq(rows, Kept)

\* df[(df['Date'].dt.date >= start_date) & (df['Date'].dt.date <= end_date)]
FilterDates(rows, sd, ed) ==
    LET Kept(r) == DateOf(r["Date"]) >= sd /\ DateOf(r["Date"]) <= ed
    IN  SelectSeq(rows, Kept)

\* the four "if selector != 'All'" steps, each on the result of the one before
FilterPlatform(rows, sel) ==
    LET Kept(r) == IsPlatform(r, sel)
    IN  IF sel # "All" THEN SelectSeq(rows, Kept) ELSE rows
FilterSentiment(rows, sel) ==
    LET Kept(r) == IsSentiment(r, sel)
    IN  IF sel # "All" THEN SelectSeq(rows, Kept) ELSE rows
FilterMediaType(rows, sel) ==
    LET Kept(r) == IsMediaType(r, sel)
    IN  IF sel # "All" THEN SelectSeq(rows, Kept) ELSE rows
FilterLocation(rows, sel) ==
    LET Kept(r) == IsLocation(r, sel)
    IN  IF sel # "All" THEN SelectSeq(rows, Kept) ELSE rows

Filter(rows, p, s, m, l, sd, ed) ==
    FilterLocation(FilterMediaType(FilterSentiment(FilterPlatform(
        FilterDates(rows, sd, ed), p), s), m), l)

----------------------------------------------------------------------------
(* The charting section *)

NoSeries == <<>>

Charting(f) ==
    [sentiment_counts     |-> value_counts(TextColumn(f, "Sentiment")),
     platform_engagements |-> SortValuesDesc(groupby_sum(f, "Platform")),
     engagement_by_date   |-> groupby_date_sum(f),
     media_type_counts    |-> value_counts(TextColumn(f, "Media Type")),
     location_counts      |-> nlargest(value_counts(TextColumn(f, "Location")), TopN)]

NoCharts ==
    [sentiment_counts |-> NoSeries, platform_engagements |-> NoSeries,
     engagement_by_date |-> NoSeries, media_type_counts |-> NoSeries,
     location_counts |-> NoSeries]

SetCharts(c) ==
    /\ sentiment_counts' = c.sentiment_counts
    /\ platform_engagements' = c.platform_engagements
    /\ engagement_by_date' = c.engagement_by_date
    /\ media_type_counts' = c.media_type_counts
    /\ location_counts' = c.location_counts

SetSelectors(p, s, m, l, sd, ed) ==
    /\ platform' = p
    /\ sentiment' = s
    /\ media_type' = m
    /\ location' = l
    /\ start_date' = sd
    /\ end_date' = ed

\* the widgets of the dashboard view are not rendered: their values are dropped
NoSelectors == SetSelectors("All", "All", "All", "All", NoDate, NoDate)

Elements(seq) == {seq[i] : i \in DOMAIN seq}

\* what the selectbox of a column lets the user pick: one of its options
Choices(col) == Elements(Options(session_df.rows, col))

\* what either date_input lets the user pick: a day from min_value to max_value
DateChoices == min_date(session_df.rows)..max_date(session_df.rows)

\* One run of the dashboard view (lines 92-213) on the session table with the
\* widgets at the given values: filtered_df, the branch taken and the series.
\* On a table without rows min_date is NaT and whether st.date_input accepts it
\* is left open: the run either stops with an exception or goes on with an
\* empty filtered_df.
dashboard(rows, p, s, m, l, sd, ed) ==
    LET f == Filter(rows, p, s, m, l, sd, ed)
    IN  [filtered_df |-> f,
         views |-> IF f # <<>> THEN {"charts"}
                   ELSE IF rows = <<>> THEN {"nodata", "exception"} ELSE {"nodata"},
         charts |-> IF f # <<>> THEN Charting(f) ELSE NoCharts]

DashboardView(rows, p, s, m, l, sd, ed) ==
    LET r == dashboard(rows, p, s, m, l, sd, ed)
    IN  /\ SetSelectors(p, s, m, l, sd, ed)
        /\ filtered_df' = r.filtered_df
        /\ view' \in r.views
        /\ SetCharts(r.charts)

\* The upload view without a usable result (lines 71-89)
UploadView(v) ==
    /\ view' = v
    /\ filtered_df' = <<>>
    /\ NoSelectors
    /\ SetCharts(NoCharts)

----------------------------------------------------------------------------
(* Script runs *)

\* Faulty variant: the table is stored in the session before it is cleaned
UploadStoringFirst(f) ==
    /\ session_df.isNone
    /\ f.present
    /\ uploaded_file # f
    /\ IF ~f.readable
       THEN /\ uploaded_file' = f
            /\ df' = None
            /\ UploadView("error")
            /\ UNCHANGED <<session_df, cache>>
       ELSE LET r == cached_clean_data(cache, read_csv(f))
            IN  IF r.raised
                THEN /\ uploaded_file' = f
                     /\ df' = r.df
                     /\ session_df' = r.df
                     /\ UploadView("error")
                     /\ UNCHANGED cache
                ELSE /\ session_df' = r.value
                     /\ cache' = r.cache
                     /\ uploaded_file' = NoFile
                     /\ df' = r.value
                     /\ DashboardView(r.value.rows, "All", "All", "All", "All",
                                      min_date(r.value.rows), max_date(r.value.rows))

\* The user picks a file in the upload view: read_csv and clean_data run; on
\* success st.rerun() starts the dashboard view with its widgets at their defaults.
Upload(f) ==
    /\ session_df.isNone
    /\ f.present
    /\ uploaded_file # f
    /\ IF ~f.readable
       THEN /\ uploaded_file' = f
            /\ df' = None
            /\ UploadView("error")
            /\ UNCHANGED <<session_df, cache>>
       ELSE LET r == cached_clean_data(cache, read_csv(f))
            IN  IF r.raised
                THEN /\ uploaded_file' = f
                     /\ df' = r.df
                     /\ UploadView("error")
                     /\ UNCHANGED <<session_df, cache>>
                ELSE /\ session_df' = r.value
                     /\ cache' = r.cache
                     /\ uploaded_file' = NoFile
                     /\ df' = r.value
                     /\ DashboardView(r.value.rows, "All", "All", "All", "All",
                                      min_date(r.value.rows), max_date(r.value.rows))

\* The user removes the file from the uploader after a failed upload
ClearFile ==
    /\ session_df.isNone
    /\ uploaded_file.present
    /\ uploaded_file' = NoFile
    /\ df' = None
    /\ UploadView("upload")
    /\ UNCHANGED <<session_df, cache>>

\* Faulty variant: the run stores filtered_df as the session table
RerunStoringFiltered(p, s, m, l, sd, ed) ==
    /\ ~session_df.isNone
    /\ df' = session_df
    /\ DashboardView(session_df.rows, p, s, m, l, sd, ed)
    /\ session_df' = [session_df EXCEPT !.rows = Filter(session_df.rows, p, s, m, l, sd, ed)]
    /\ UNCHANGED <<cache, uploaded_file>>

\* A run of the dashboard view that a change of one sidebar widget starts
Rerun(p, s, m, l, sd, ed) ==
    /\ ~session_df.isNone
    /\ df' = session_df
    /\ DashboardView(session_df.rows, p, s, m, l, sd, ed)
    /\ UNCHANGED <<session_df, cache, uploaded_file>>

\* The user changes one sidebar widget; the others keep their values
SelectPlatform(p) ==
    p # platform /\ Rerun(p, sentiment, media_type, location, start_date, end_date)
SelectSentiment(s) ==
    s # sentiment /\ Rerun(platform, s, media_type, location, start_date, end_date)
SelectMediaType(m) ==
    m # media_type /\ Rerun(platform, sentiment, m, location, start_date, end_date)
SelectLocation(l) ==
    l # location /\ Rerun(platform, sentiment, media_type, l, start_date, end_date)
SelectStartDate(sd) ==
    sd # start_date /\ Rerun(platform, sentiment, media_type, location, sd, end_date)
SelectEndDate(ed) ==
    ed # end_date /\ Rerun(platform, sentiment, media_type, location, start_date, ed)

SelectWidget ==
    \/ \E p \in Choices("Platform") : SelectPlatform(p)
    \/ \E s \in Choices("Sentiment") : SelectSentiment(s)
    \/ \E m \in Choices("Media Type") : SelectMediaType(m)
    \/ \E l \in Choices("Location") : SelectLocation(l)
    \/ \E sd \in DateChoices : SelectStartDate(sd)
    \/ \E ed \in DateChoices : SelectEndDate(ed)

\* The user presses "Unggah File Baru": the session table is dropped and
\* st.rerun() shows the upload view
Reset ==
    /\ ~session_df.isNone
    /\ session_df' = None
    /\ uploaded_file' = NoFile
    /\ df' = None
    /\ UploadView("upload")
    /\ UNCHANGED cache

\* Line 85 alone, on the table read at line 84
CallCleanData ==
    /\ view = "read"
    /\ LET r == cached_clean_data(cache, df)
       IN  /\ df' = r.df
           /\ cache' = r.cache
           /\ session_df' = r.value
           /\ view' = IF r.raised THEN "raised" ELSE "cleaned"
    /\ UNCHANGED <<uploaded_file, selectors, filtered_df, charts>>

\* Lines 148-213 alone, on a filtered_df
ChartingSection ==
    /\ view = "filtered"
    /\ IF filtered_df = <<>>
       THEN view' = "nodata" /\ SetCharts(NoCharts)
       ELSE view' = "charts" /\ SetCharts(Charting(filtered_df))
    /\ UNCHANGED <<session_df, cache, uploaded_file, df, selectors, filtered_df>>

----------------------------------------------------------------------------
(* Inputs *)

SeqsUpTo(S, n) == UNION {[1..k -> S] : k \in 0..n}

Categoricals == {"Platform", "Sentiment", "Media Type", "Location"}

BaseRow == Row(Str("2024-01-01 00:00"), Str("10"), Str("X"), Str("Positive"), Str("Video"), Str("NY"))

\* Raw CSV rows: the base row with one cell changed, and two rows with several
RawRows ==
    {BaseRow}
    \cup {[BaseRow EXCEPT !["Date"] = c] : c \in {Str("2024-01-02 13:00"), Str("bad"), NaN}}
    \cup {[BaseRow EXCEPT !["Engagements"] = c] :
             c \in {Str("-5"), Str("3.7"), Str("abc"), Str("inf")}}
    \cup {[BaseRow EXCEPT ![col] = NaN] : col \in Categoricals}
    \cup {Row(Str("bad"), Str("inf"), NaN, NaN, NaN, NaN),
          Row(Str("2024-01-03 00:00"), NaN, Str("Y"), NaN, NaN, Str("LA"))}

\* Files whose header lacks one of the required columns
FilesLackingColumn ==
    {CsvFile(RequiredColumns \ {col}, <<[BaseRow EXCEPT ![col] = NaN]>>) :
        col \in RequiredColumns}

RawFiles ==
    {CsvFile(RequiredColumns, rows) : rows \in SeqsUpTo(RawRows, MaxRows)}
    \cup FilesLackingColumn

\* Raw rows of the tables the dashboard view is explored on
DashRawRows ==
    {BaseRow,
     Row(Str("2024-01-01 18:00"), Str("3"), Str("Y"), Str("Positive"), Str("Video"), Str("NY")),
     Row(Str("2024-01-02 13:00"), Str("7"), Str("X"), Str("Negative"), Str("Video"), Str("LA")),
     Row(Str("2024-01-02 00:00"), Str("-5"), NaN, Str("Negative"), NaN, NaN)}

DashFiles == {CsvFile(RequiredColumns, rows) : rows \in SeqsUpTo(DashRawRows, MaxDashRows)}

\* Files for the sums per platform and per day
AggRawRows ==
    DashRawRows \cup
    {Row(Str("2024-01-03 00:00"), Str("abc"), Str("X"), Str("Positive"), Str("Image"), Str("NY"))}

AggFiles == {CsvFile(RequiredColumns, rows) : rows \in SeqsUpTo(AggRawRows, MaxRows)}

Locations == {"Bali", "Jakarta", "LA", "Medan", "NY", "Surabaya"}

LocRawRows == {[BaseRow EXCEPT !["Location"] = Str(l)] : l \in Locations}

LocRawRow(l) == [BaseRow EXCEPT !["Location"] = Str(l)]

OneOfEach ==
    <<LocRawRow("NY"), LocRawRow("Bali"), LocRawRow("Surabaya"), LocRawRow("LA"),
      LocRawRow("Medan"), LocRawRow("Jakarta")>>

\* Files for the location chart: up to MaxLocExtra rows of any locations, then
\* one row each of the first n locations of OneOfEach
LocFiles ==
    {CsvFile(RequiredColumns, extra \o SubSeq(OneOfEach, 1, n)) :
        extra \in SeqsUpTo(LocRawRows, MaxLocExtra), n \in 0..Len(OneOfEach)}

\* The files of the session specification
ExampleFile ==
    CsvFile(RequiredColumns,
        <<BaseRow,
          Row(Str("bad"), Str("3"), Str("Y"), Str("Positive"), Str("Video"), Str("LA")),
          Row(Str("2024-01-02 00:00"), Str("abc"), Str("X"), Str("Negative"), Str("Video"), Str("NY"))>>)
SparseFile ==
    CsvFile(RequiredColumns,
        <<Row(Str("2024-01-02 13:00"), Str("7"), Str("Y"), NaN, Str("Image"), Str("LA")),
          Row(Str("2024-01-01 00:00"), Str("-5"), NaN, Str("Negative"), NaN, NaN),
          Row(Str("2024-01-03 00:00"), Str("3.7"), Str("Y"), Str("Negative"), Str("Image"), Str("LA"))>>)
UndatedFile ==
    CsvFile(RequiredColumns, <<[BaseRow EXCEPT !["Date"] = Str("bad")]>>)
InfiniteFile ==
    CsvFile(RequiredColumns, <<BaseRow, [BaseRow EXCEPT !["Engagements"] = Str("inf")]>>)
HeaderlessFile ==
    CsvFile(RequiredColumns \ {"Location"}, <<[BaseRow EXCEPT !["Location"] = NaN]>>)

Files == {ExampleFile, SparseFile, UndatedFile, InfiniteFile, HeaderlessFile, CorruptFile}

----------------------------------------------------------------------------
(* Specifications *)

SelectorsAre(p, s, m, l, sd, ed) ==
    /\ platform = p
    /\ sentiment = s
    /\ media_type = m
    /\ location = l
    /\ start_date = sd
    /\ end_date = ed

ChartsAre(c) ==
    /\ sentiment_counts = c.sentiment_counts
    /\ platform_engagements = c.platform_engagements
    /\ engagement_by_date = c.engagement_by_date
    /\ media_type_counts = c.media_type_counts
    /\ location_counts = c.location_counts

\* The first run of a session: the upload view, nothing uploaded
Init ==
    /\ session_df = None
    /\ cache = {}
    /\ uploaded_file = NoFile
    /\ df = None
    /\ view = "upload"
    /\ SelectorsAre("All", "All", "All", "All", NoDate, NoDate)
    /\ filtered_df = <<>>
    /\ ChartsAre(NoCharts)

Next ==
    \/ \E f \in Files : Upload(f)
    \/ ClearFile
    \/ Reset
    \/ SelectWidget

Spec == Init /\ [][Next]_vars

\* clean_data as a function: the state at line 85, for every raw file, with the
\* store either empty or holding this file's result from an earlier upload
InitClean ==
    /\ uploaded_file \in RawFiles
    /\ df = read_csv(uploaded_file)
    /\ session_df = None
    /\ cache \in {{}} \cup
                 (IF clean_data(df).raised THEN {}
                  ELSE {{[key |-> df, value |-> clean_data(df).df]}})
    /\ view = "read"
    /\ SelectorsAre("All", "All", "All", "All", NoDate, NoDate)
    /\ filtered_df = <<>>
    /\ ChartsAre(NoCharts)

NextClean == CallCleanData

SpecClean == InitClean /\ [][NextClean]_vars

\* The state a successful upload of file f leaves: the dashboard view at its defaults
Uploaded(f) ==
    LET raw == read_csv(f)
        t == clean_data(raw).df
        r == dashboard(t.rows, "All", "All", "All", "All", min_date(t.rows), max_date(t.rows))
    IN  /\ session_df = t
        /\ cache = {[key |-> raw, value |-> t]}
        /\ uploaded_file = NoFile
        /\ df = t
        /\ view \in r.views
        /\ SelectorsAre("All", "All", "All", "All", min_date(t.rows), max_date(t.rows))
        /\ filtered_df = r.filtered_df
        /\ ChartsAre(r.charts)

\* The dashboard view as a function of the session table and the widgets
InitDash == \E f \in DashFiles : Uploaded(f)

NextDash == SelectWidget

SpecDash == InitDash /\ [][NextDash]_vars

\* The charting section as a function of filtered_df: the state at line 148
\* with every widget at its default, so that filtered_df is the whole table
AtCharting(f) ==
    LET raw == read_csv(f)
        t == clean_data(raw).df
    IN  /\ session_df = t
        /\ cache = {[key |-> raw, value |-> t]}
        /\ uploaded_file = NoFile
        /\ df = t
        /\ view = "filtered"
        /\ SelectorsAre("All", "All", "All", "All", min_date(t.rows), max_date(t.rows))
        /\ filtered_df = t.rows
        /\ ChartsAre(NoCharts)

InitAgg == \E f \in LocFiles \cup AggFiles : AtCharting(f)

NextAgg == ChartingSection

SpecAgg == InitAgg /\ [][NextAgg]_vars

----------------------------------------------------------------------------
(* Properties of clean_data, under SpecClean *)

\* the raw table the call was given
RawTable == read_csv(uploaded_file).rows

\* whether pandas can read a raw Date cell as a date
Parses(c) == ToDatetime(c)[1] = "datetime"

\* the raw rows that must survive, and the k-th of them
Surviving == {j \in DOMAIN RawTable : Parses(RawTable[j]["Date"])}
KthSurviving(k) == CHOOSE j \in Surviving : Cardinality({i \in Surviving : i <= j}) = k

\* C1: every surviving raw row whose Platform, Sentiment, Media Type or Location
\* cell is missing has exactly the text "Unknown" in that field of its record.
C1_DefaultFill ==
    view = "cleaned" =>
        \A k \in DOMAIN session_df.rows : \A col \in Categoricals :
            (k <= Cardinality(Surviving) /\ IsNull(RawTable[KthSurviving(k)][col]))
                => session_df.rows[k][col] = Str("Unknown")

\* C2: every record clean_data returns has an integer Engagements value >= 0.
C2_NonNegative ==
    view = "cleaned" =>
        \A k \in DOMAIN session_df.rows :
            /\ session_df.rows[k]["Engagements"][1] = "int"
            /\ session_df.rows[k]["Engagements"][2] >= 0

\* C3: the records clean_data returns are the raw rows whose Date parses, all of
\* them, once each, in their original order: the k-th record carries the date
\* and the present categorical cells of the k-th such raw row.
C3_DateDropKeepsOrder ==
    view = "cleaned" =>
        /\ Len(session_df.rows) = Cardinality(Surviving)
        /\ \A k \in DOMAIN session_df.rows :
              LET raw == RawTable[KthSurviving(k)]
                  rec == session_df.rows[k]
              IN  /\ rec["Date"] = ToDatetime(raw["Date"])
                  /\ ~IsNull(rec["Date"])
                  /\ \A col \in Categoricals : ~IsNull(raw[col]) => rec[col] = raw[col]

\* C3 witness: a row with an unreadable date between two equal rows that parse;
\* both are returned
C3_Witness ==
    /\ view = "cleaned"
    /\ Len(RawTable) = 3
    /\ ~Parses(RawTable[2]["Date"])
    /\ RawTable[1] = RawTable[3]
    /\ RawTable[1]["Platform"] = NaN
    /\ Len(session_df.rows) = 2
    /\ session_df.rows[1] = session_df.rows[2]

\* C8: after clean_data returned, the caller's table df holds the rows and cells
\* it held before the call.
C8_InputUntouched == view = "cleaned" => df.rows = RawTable

----------------------------------------------------------------------------
(* Properties of the filtering logic, under SpecDash *)

\* the record satisfies every constraint the widgets state
Satisfies(r) ==
    /\ start_date <= r["Date"][2] \div 24
    /\ r["Date"][2] \div 24 <= end_date
    /\ platform # "All" => r["Platform"][3] = platform
    /\ sentiment # "All" => r["Sentiment"][3] = sentiment
    /\ media_type # "All" => r["Media Type"][3] = media_type
    /\ location # "All" => r["Location"][3] = location

Selected == {j \in DOMAIN session_df.rows : Satisfies(session_df.rows[j])}
KthSelected(k) == CHOOSE j \in Selected : Cardinality({i \in Selected : i <= j}) = k

\* C4: filtered_df holds exactly the session records whose day lies in
\* [start_date, end_date] and whose fields equal every selector that is not
\* 'All', each once, unchanged and in their original order.
C4_FilterConjunction ==
    ~session_df.isNone =>
        /\ Len(filtered_df) = Cardinality(Selected)
        /\ \A k \in DOMAIN filtered_df : filtered_df[k] = session_df.rows[KthSelected(k)]

\* C4 witness: of two records on the last selected day, one in the evening, the
\* selected platform keeps the second only
C4_Witness ==
    /\ view = "charts"
    /\ Len(session_df.rows) = 2
    /\ platform # "All"
    /\ session_df.rows[1]["Platform"][3] # platform
    /\ session_df.rows[2]["Date"][2] > 24 * end_date
    /\ start_date = end_date
    /\ filtered_df = <<session_df.rows[2]>>

\* C7: a run with start_date after end_date ends in the 'no data' branch with an
\* empty filtered_df, whatever the table and the other widgets, and leaves the
\* session table as it was.
C7_InvalidRangeIsEmpty ==
    [][start_date' > end_date' =>
          /\ filtered_df' = <<>>
          /\ view' = "nodata"
          /\ session_df' = session_df
          /\ ~session_df'.isNone]_vars

\* C7 witness: start_date after end_date on a table with records, another
\* selector set, and the run ended in the 'no data' branch
C7_Witness ==
    /\ start_date > end_date
    /\ session_df.rows # <<>>
    /\ sentiment # "All"
    /\ view = "nodata"

----------------------------------------------------------------------------
(* Properties of the charting section, under SpecAgg *)

RECURSIVE SumValues(_)
SumValues(series) ==
    IF series = <<>> THEN 0 ELSE series[1][2] + SumValues(Tail(series))

RECURSIVE SumEngagements(_)
SumEngagements(rows) ==
    IF rows = <<>> THEN 0 ELSE rows[1]["Engagements"][2] + SumEngagements(Tail(rows))

Labels(series) == {series[i][1] : i \in DOMAIN series}
DistinctLabels(series) == \A i, j \in DOMAIN series : series[i][1] = series[j][1] => i = j
Occurrences(col, label) ==
    Cardinality({i \in DOMAIN filtered_df : filtered_df[i][col][3] = label})

\* C5: the values of the platform-engagements series add up to the Engagements
\* of all filtered records, and its labels are the platforms of the records,
\* each once.
C5_SumConservation ==
    view = "charts" =>
        /\ SumValues(platform_engagements) = SumEngagements(filtered_df)
        /\ DistinctLabels(platform_engagements)
        /\ Labels(platform_engagements) =
              {filtered_df[i]["Platform"][3] : i \in DOMAIN filtered_df}

\* C5 witness: three records on two platforms, one with negative engagements
C5_Witness ==
    /\ view = "charts"
    /\ Len(filtered_df) = 3
    /\ Len(platform_engagements) = 2
    /\ \E i \in DOMAIN filtered_df : filtered_df[i]["Engagements"][2] < 0
    /\ filtered_df[1]["Platform"] = filtered_df[3]["Platform"]
    /\ SumEngagements(filtered_df) > 0

PresentLocations == {filtered_df[i]["Location"][3] : i \in DOMAIN filtered_df}

\* C6: the top-locations series has min(5, number of distinct locations)
\* entries, each a location with its count, in descending order of count, and
\* no location left out has more records than one that is in.
C6_TopNBound ==
    view = "charts" =>
        /\ Len(location_counts) <= 5
        /\ Len(location_counts) =
              (IF Cardinality(PresentLocations) < 5 THEN Cardinality(PresentLocations) ELSE 5)
        /\ DistinctLabels(location_counts)
        /\ \A i \in DOMAIN location_counts :
              /\ location_counts[i][1] \in PresentLocations
              /\ location_counts[i][2] = Occurrences("Location", location_counts[i][1])
              /\ \A j \in DOMAIN location_counts : i < j =>
                    location_counts[i][2] >= location_counts[j][2]
              /\ \A l \in PresentLocations \ Labels(location_counts) :
                    Occurrences("Location", l) <= location_counts[i][2]

\* C6 witness: six locations with different counts; the series has five
C6_Witness ==
    /\ view = "charts"
    /\ Cardinality(PresentLocations) = 6
    /\ Len(location_counts) = 5
    /\ location_counts[1][2] = 3
    /\ location_counts[2][2] = 2
    /\ location_counts[5][2] = 1
    /\ filtered_df[1]["Location"] # Str(location_counts[1][1])

----------------------------------------------------------------------------
(* Properties of the session, under Spec *)

DashboardShown == view \in {"charts", "nodata", "exception"}

UploadFails(f) == ~f.readable \/ clean_data(read_csv(f)).raised

\* C9: a run changes st.session_state.df only by the reset button, which sets it
\* to None, or by a successful upload, which sets it to the cleaned table of the
\* uploaded file; every run of the dashboard view is shown with the table the
\* upload stored.
C9_SessionStable ==
    [][/\ (~session_df.isNone /\ session_df' # session_df)
            => (session_df' = None /\ view' = "upload")
       /\ \A f \in Files : (session_df.isNone /\ Upload(f) /\ ~UploadFails(f))
            => (session_df' = clean_data(read_csv(f)).df /\ DashboardShown')
       /\ (session_df.isNone /\ ~session_df'.isNone)
            => \E f \in Files : Upload(f) /\ ~UploadFails(f)
       /\ DashboardShown' => ~session_df'.isNone]_vars

\* C9 witness: the dashboard on the example file after a reset and a second
\* upload, with two widgets changed
C9_Witness ==
    /\ view = "charts"
    /\ session_df = clean_data(read_csv(ExampleFile)).df
    /\ Cardinality(cache) = 2
    /\ platform # "All"
    /\ start_date > min_date(session_df.rows)
    /\ Len(filtered_df) < Len(session_df.rows)

\* C10: an upload whose reading or cleaning raises ends in the upload view with
\* an error and st.session_state.df still None; the dashboard view is only shown
\* on a table that a successful clean_data call returned.
C10_FailedUploadKeepsNone ==
    [][/\ \A f \in Files : (Upload(f) /\ UploadFails(f))
            => (view' = "error" /\ session_df'.isNone /\ cache' = cache)
       /\ view' = "error" => (session_df'.isNone /\ UploadFails(uploaded_file'))
       /\ DashboardShown' =>
            (~session_df'.isNone /\ \E e \in cache' : e.value = session_df')]_vars

\* C10 witness: the error is shown for a file without a Location column, after an
\* earlier upload had succeeded and been reset
C10_Witness ==
    /\ view = "error"
    /\ uploaded_file = HeaderlessFile
    /\ session_df.isNone
    /\ cache # {}

====
